---- MODULE Spec2Model ----
(***************************************************************************)
(* The product-catalog service: the table of Product rows behind it and    *)
(* the five request handlers (create, get, update, delete, list/filter).   *)
(* One action serves one whole request: it records the request, runs the   *)
(* handler against the table and records the response.                     *)
(***************************************************************************)
EXTENDS Integers, Sequences, FiniteSets

VARIABLES
    store,      \* the product table: id -> row (the committed rows)
    nextId,     \* the id the table's key sequence hands out next
    before,     \* the table as it was when the last request arrived
    request,    \* the last request served
    response    \* the response it was given

vars == <<store, nextId, before, request, response>>

-----------------------------------------------------------------------------
(* Bounds *)

\* how many ids the key sequence hands out before creation is cut off
MaxId == 2

-----------------------------------------------------------------------------
(* Status codes (service.common.status) *)

HTTP_200_OK == 200
HTTP_201_CREATED == 201
HTTP_204_NO_CONTENT == 204
HTTP_400_BAD_REQUEST == 400
HTTP_404_NOT_FOUND == 404
HTTP_415_UNSUPPORTED_MEDIA_TYPE == 415
HTTP_500_INTERNAL_SERVER_ERROR == 500

-----------------------------------------------------------------------------
(* The Product entity *)

\* the names of the Category enumeration's members
CategoryNames == {"UNKNOWN", "CLOTHS", "FOOD", "HOUSEWARES", "AUTOMOTIVE", "TOOLS"}

\* Decimal(text): the price as a number of hundredths; <<>> when it does not parse
Decimal(text) ==
    CASE text = "12.50" -> <<1250>>
      [] text = "7.00"  -> <<700>>
      [] OTHER          -> <<>>

\* str(price) of a stored price
PriceStr(price) ==
    CASE price = 1250 -> "12.50"
      [] price = 700  -> "7.00"
      [] OTHER        -> "?"

\* getattr(Category, name): <<member>>, or <<>> when no member has that name
CategoryOf(name) == IF name \in CategoryNames THEN <<name>> ELSE <<>>

\* Product.serialize(): the wire form of the row stored under id
serialize(id, row) ==
    [id          |-> id,
     name        |-> row.name,
     description |-> row.description,
     price       |-> PriceStr(row.price),
     available   |-> row.available,
     category    |-> row.category]

\* A row of a Product that has been constructed and not yet filled in.
BlankRow ==
    [name |-> "", description |-> "", price |-> 0, available |-> FALSE,
     category |-> "UNKNOWN"]

\* Product.deserialize(data): the fields are assigned in order (name,
\* description, price, available, category); the first one that is missing or
\* malformed stops it with a validation error, the earlier assignments made.
\* An "id" key, like any other extra key, is not read.
deserialize(row, data) ==
    IF "name" \notin DOMAIN data
    THEN [ok |-> FALSE, row |-> row]
    ELSE LET r1 == [row EXCEPT !.name = data.name] IN
    IF "description" \notin DOMAIN data
    THEN [ok |-> FALSE, row |-> r1]
    ELSE LET r2 == [r1 EXCEPT !.description = data.description] IN
    IF "price" \notin DOMAIN data \/ Decimal(data.price) = <<>>
    THEN [ok |-> FALSE, row |-> r2]
    ELSE LET r3 == [r2 EXCEPT !.price = Decimal(data.price)[1]] IN
    IF "available" \notin DOMAIN data \/ data.available \notin BOOLEAN
    THEN [ok |-> FALSE, row |-> r3]
    ELSE LET r4 == [r3 EXCEPT !.available = data.available] IN
    IF "category" \notin DOMAIN data \/ CategoryOf(data.category) = <<>>
    THEN [ok |-> FALSE, row |-> r4]
    ELSE [ok |-> TRUE, row |-> [r4 EXCEPT !.category = CategoryOf(data.category)[1]]]

-----------------------------------------------------------------------------
(* The persistence gateway *)

\* Product.find(id): <<row>>, or <<>> when no row has that id
find(s, id) == IF id \in DOMAIN s THEN <<s[id]>> ELSE <<>>

\* Product.all(), serialized
all(s) == {serialize(i, s[i]) : i \in DOMAIN s}

\* Product.find_by_name(name), serialized
find_by_name(s, name) == {serialize(i, s[i]) : i \in {j \in DOMAIN s : s[j].name = name}}

\* Product.find_by_category(category), serialized
find_by_category(s, category) ==
    {serialize(i, s[i]) : i \in {j \in DOMAIN s : s[j].category = category}}

\* Product.find_by_availability(flag), serialized
find_by_availability(s, flag) ==
    {serialize(i, s[i]) : i \in {j \in DOMAIN s : s[j].available = flag}}

\* the table with the row of id written (product.create(), product.update())
Put(s, id, row) == [i \in DOMAIN s \cup {id} |-> IF i = id THEN row ELSE s[i]]

\* the table with the row of id removed (product.delete())
Remove(s, id) == [i \in DOMAIN s \ {id} |-> s[i]]

-----------------------------------------------------------------------------
(* Responses *)

NoLocation == <<>>

\* a serialized product as the body
ProductResponse(code, product, location) ==
    [status |-> code, kind |-> "product", product |-> product, items |-> {},
     message |-> <<>>, location |-> location]

\* a sequence of serialized products as the body (the table fixes no order)
ListResponse(code, items) ==
    [status |-> code, kind |-> "list", product |-> <<>>, items |-> items,
     message |-> <<>>, location |-> NoLocation]

\* the structured error body {"message": ...} of abort() and the error handlers
ErrorResponse(code, message) ==
    [status |-> code, kind |-> "error", product |-> <<>>, items |-> {},
     message |-> message, location |-> NoLocation]

\* an empty body
EmptyResponse(code) ==
    [status |-> code, kind |-> "empty", product |-> <<>>, items |-> {},
     message |-> <<>>, location |-> NoLocation]

\* an exception no handler catches: the request fails as a server error
UnhandledResponse ==
    [status |-> HTTP_500_INTERNAL_SERVER_ERROR, kind |-> "unhandled",
     product |-> <<>>, items |-> {}, message |-> <<>>, location |-> NoLocation]

\* f"Product with id '{product_id}' was not found."
NotFoundMessage(id) == <<"Product with id '", id, "' was not found.">>

\* check_content_type("application/json")
IsJson(headers) ==
    /\ "Content-Type" \in DOMAIN headers
    /\ headers["Content-Type"] = "application/json"

-----------------------------------------------------------------------------
(* Request handlers.  Each takes the table (and what it reads of the        *)
(* request) and gives the table it leaves and the response.                 *)

\* create_products taking the id the caller sent, when it sent one
create_products_caller_id(s, n, q) ==
    IF ~IsJson(q.headers)
    THEN [store |-> s, nextId |-> n,
          response |-> ErrorResponse(HTTP_415_UNSUPPORTED_MEDIA_TYPE,
                                     <<"Content-Type must be application/json">>)]
    ELSE LET d == deserialize(BlankRow, q.body)
             id == IF "id" \in DOMAIN q.body THEN q.body.id ELSE n
         IN
         IF ~d.ok
         THEN [store |-> s, nextId |-> n,
               response |-> ErrorResponse(HTTP_400_BAD_REQUEST, <<"Invalid product">>)]
         ELSE [store |-> Put(s, id, d.row), nextId |-> n + 1,
               response |-> ProductResponse(HTTP_201_CREATED, serialize(id, d.row),
                                            <<"/products/", id>>)]

\* create_products inserting the record before it validates the payload
create_products_insert_first(s, n, q) ==
    IF ~IsJson(q.headers)
    THEN [store |-> s, nextId |-> n,
          response |-> ErrorResponse(HTTP_415_UNSUPPORTED_MEDIA_TYPE,
                                     <<"Content-Type must be application/json">>)]
    ELSE LET d == deserialize(BlankRow, q.body) IN
         IF ~d.ok
         THEN [store |-> Put(s, n, d.row), nextId |-> n + 1,
               response |-> ErrorResponse(HTTP_400_BAD_REQUEST, <<"Invalid product">>)]
         ELSE [store |-> Put(s, n, d.row), nextId |-> n + 1,
               response |-> ProductResponse(HTTP_201_CREATED, serialize(n, d.row),
                                            <<"/products/", n>>)]

\* POST /products
create_products(s, n, q) ==
    IF ~IsJson(q.headers)
    THEN [store |-> s, nextId |-> n,
          response |-> ErrorResponse(HTTP_415_UNSUPPORTED_MEDIA_TYPE,
                                     <<"Content-Type must be application/json">>)]
    ELSE LET d == deserialize(BlankRow, q.body) IN
         IF ~d.ok
         THEN [store |-> s, nextId |-> n,
               response |-> ErrorResponse(HTTP_400_BAD_REQUEST, <<"Invalid product">>)]
         ELSE [store |-> Put(s, n, d.row), nextId |-> n + 1,
               response |-> ProductResponse(HTTP_201_CREATED, serialize(n, d.row),
                                            <<"/products/", n>>)]

\* GET /products/<id>
get_products(s, id) ==
    IF find(s, id) = <<>>
    THEN ErrorResponse(HTTP_404_NOT_FOUND, NotFoundMessage(id))
    ELSE ProductResponse(HTTP_200_OK, serialize(id, find(s, id)[1]), NoLocation)

\* update_products letting the id of the body decide which record is written
update_products_body_id(s, q) ==
    IF ~IsJson(q.headers)
    THEN [store |-> s,
          response |-> ErrorResponse(HTTP_415_UNSUPPORTED_MEDIA_TYPE,
                                     <<"Content-Type must be application/json">>)]
    ELSE LET product == find(s, q.id) IN
         IF product = <<>>
         THEN [store |-> s,
               response |-> ErrorResponse(HTTP_404_NOT_FOUND, NotFoundMessage(q.id))]
         ELSE LET d == deserialize(product[1], q.body)
                  id == IF "id" \in DOMAIN q.body THEN q.body.id ELSE q.id
              IN
              IF ~d.ok
              THEN [store |-> s,
                    response |-> ErrorResponse(HTTP_400_BAD_REQUEST, <<"Invalid product">>)]
              ELSE [store |-> Put(s, id, d.row),
                    response |-> ProductResponse(HTTP_200_OK, serialize(id, d.row),
                                                 NoLocation)]

\* update_products committing the fields assigned before validation failed
update_products_partial(s, q) ==
    IF ~IsJson(q.headers)
    THEN [store |-> s,
          response |-> ErrorResponse(HTTP_415_UNSUPPORTED_MEDIA_TYPE,
                                     <<"Content-Type must be application/json">>)]
    ELSE LET product == find(s, q.id) IN
         IF product = <<>>
         THEN [store |-> s,
               response |-> ErrorResponse(HTTP_404_NOT_FOUND, NotFoundMessage(q.id))]
         ELSE LET d == deserialize(product[1], q.body) IN
              IF ~d.ok
              THEN [store |-> Put(s, q.id, d.row),
                    response |-> ErrorResponse(HTTP_400_BAD_REQUEST, <<"Invalid product">>)]
              ELSE [store |-> Put(s, q.id, d.row),
                    response |-> ProductResponse(HTTP_200_OK, serialize(q.id, d.row),
                                                 NoLocation)]

\* PUT /products/<id>
update_products(s, q) ==
    IF ~IsJson(q.headers)
    THEN [store |-> s,
          response |-> ErrorResponse(HTTP_415_UNSUPPORTED_MEDIA_TYPE,
                                     <<"Content-Type must be application/json">>)]
    ELSE LET product == find(s, q.id) IN
         IF product = <<>>
         THEN [store |-> s,
               response |-> ErrorResponse(HTTP_404_NOT_FOUND, NotFoundMessage(q.id))]
         ELSE LET d == deserialize(product[1], q.body) IN
              IF ~d.ok
              \* nothing was committed: the request's session is discarded
              THEN [store |-> s,
                    response |-> ErrorResponse(HTTP_400_BAD_REQUEST, <<"Invalid product">>)]
              \* product.id = product_id; product.update()
              ELSE [store |-> Put(s, q.id, d.row),
                    response |-> ProductResponse(HTTP_200_OK, serialize(q.id, d.row),
                                                 NoLocation)]

\* delete_products aborting with 404, as get and update do, when the id is absent
delete_products_strict(s, q) ==
    LET product == find(s, q.id) IN
    IF product = <<>>
    THEN [store |-> s,
          response |-> ErrorResponse(HTTP_404_NOT_FOUND, NotFoundMessage(q.id))]
    ELSE [store |-> Remove(s, q.id), response |-> EmptyResponse(HTTP_204_NO_CONTENT)]

\* delete_products answering 204 without removing the record
delete_products_keep(s, q) ==
    [store |-> s, response |-> EmptyResponse(HTTP_204_NO_CONTENT)]

\* DELETE /products/<id>
delete_products(s, q) ==
    LET product == find(s, q.id) IN
    [store |-> IF product # <<>> THEN Remove(s, q.id) ELSE s,
     response |-> EmptyResponse(HTTP_204_NO_CONTENT)]

\* request.args.get(key) is truthy: the parameter is there and not empty
Given(args, key) == key \in DOMAIN args /\ args[key] # ""

\* category.upper()
Upper(text) ==
    CASE text = "food"   -> "FOOD"
      [] text = "Cloths" -> "CLOTHS"
      [] text = "bogus"  -> "BOGUS"
      [] OTHER           -> text

\* available.lower()
Lower(text) ==
    CASE text = "YES" -> "yes"
      [] OTHER        -> text

\* list_products looking the category up as it was typed, without upper()
list_products_no_upper(s, q) ==
    IF Given(q.args, "name")
    THEN ListResponse(HTTP_200_OK, find_by_name(s, q.args.name))
    ELSE IF Given(q.args, "category")
    THEN LET category_value == CategoryOf(q.args.category) IN
         IF category_value = <<>>
         THEN UnhandledResponse
         ELSE ListResponse(HTTP_200_OK, find_by_category(s, category_value[1]))
    ELSE IF Given(q.args, "available")
    THEN LET available_value == Lower(q.args.available) \in {"true", "yes", "1"} IN
         ListResponse(HTTP_200_OK, find_by_availability(s, available_value))
    ELSE ListResponse(HTTP_200_OK, all(s))

\* list_products comparing the available value as it was typed, without lower()
list_products_no_lower(s, q) ==
    IF Given(q.args, "name")
    THEN ListResponse(HTTP_200_OK, find_by_name(s, q.args.name))
    ELSE IF Given(q.args, "category")
    THEN LET category_value == CategoryOf(Upper(q.args.category)) IN
         IF category_value = <<>>
         THEN UnhandledResponse
         ELSE ListResponse(HTTP_200_OK, find_by_category(s, category_value[1]))
    ELSE IF Given(q.args, "available")
    THEN LET available_value == q.args.available \in {"true", "yes", "1"} IN
         ListResponse(HTTP_200_OK, find_by_availability(s, available_value))
    ELSE ListResponse(HTTP_200_OK, all(s))

\* GET /products (the second, filtering definition; it replaces the first)
list_products(s, q) ==
    IF Given(q.args, "name")
    THEN ListResponse(HTTP_200_OK, find_by_name(s, q.args.name))
    ELSE IF Given(q.args, "category")
    THEN LET category_value == CategoryOf(Upper(q.args.category)) IN
         IF category_value = <<>>
         \* getattr raises AttributeError, which nothing catches
         THEN UnhandledResponse
         ELSE ListResponse(HTTP_200_OK, find_by_category(s, category_value[1]))
    ELSE IF Given(q.args, "available")
    THEN LET available_value == Lower(q.args.available) \in {"true", "yes", "1"} IN
         ListResponse(HTTP_200_OK, find_by_availability(s, available_value))
    ELSE ListResponse(HTTP_200_OK, all(s))

-----------------------------------------------------------------------------
(* The requests the clients send *)

NoBody == <<>>
NoArgs == <<>>
NoHeaders == <<>>

Names == {"Hat", "hat"}
Descriptions == {"Old", "Updated Description"}
PriceTexts == {"12.50"}
PayloadCategories == {"FOOD", "CLOTHS"}

\* the payloads a client builds from a product (ProductFactory().serialize()
\* sends an id key too: see WithId)
ValidPayloads ==
    {[name |-> n, description |-> d, price |-> p, available |-> a, category |-> c] :
        n \in Names, d \in Descriptions, p \in PriceTexts, a \in BOOLEAN,
        c \in PayloadCategories}

\* a payload with a key removed
Without(data, key) == [k \in DOMAIN data \ {key} |-> data[k]]

\* a payload carrying an id key
WithId(data, id) == [k \in DOMAIN data \cup {"id"} |-> IF k = "id" THEN id ELSE data[k]]

\* the ids a request names: 0 (never assigned), every id the sequence can
\* hand out, and one beyond
PathIds == 0..(MaxId + 1)

\* payloads that fail validation: no name, no category, an unknown category
InvalidPayloads ==
    {Without(b, "name") : b \in ValidPayloads}
        \cup {Without(b, "category") : b \in ValidPayloads}
        \cup {[b EXCEPT !.category = "bogus"] : b \in ValidPayloads}

\* what a client sends as JSON: a payload, with or without an id key
Payloads ==
    ValidPayloads
        \cup {WithId(b, i) : b \in ValidPayloads, i \in 1..MaxId}
        \cup InvalidPayloads

JsonHeaders == [h \in {"Content-Type"} |-> "application/json"]

\* no Content-Type at all, and a wrong one
OtherHeaders == {NoHeaders, [h \in {"Content-Type"} |-> "plain/text"]}

\* the body sent without the JSON content type (it is never read)
RawPayload ==
    [name |-> "Hat", description |-> "Updated Description", price |-> "12.50",
     available |-> TRUE, category |-> "FOOD"]

\* the (headers, body) pairs of a POST or PUT
Entities ==
    {<<JsonHeaders, b>> : b \in Payloads} \cup {<<h, RawPayload>> : h \in OtherHeaders}

NameArgs == {"", "Hat", "hat"}
CategoryArgs == {"", "food", "FOOD", "Cloths", "bogus"}
AvailableArgs == {"", "true", "YES", "1", "false", "no"}

ArgValues(key) ==
    CASE key = "name" -> NameArgs
      [] key = "category" -> CategoryArgs
      [] key = "available" -> AvailableArgs

\* every query string over name, category and available
QueryArgs ==
    UNION {{a \in [D -> NameArgs \cup CategoryArgs \cup AvailableArgs] :
                \A k \in D : a[k] \in ArgValues(k)} :
           D \in SUBSET {"name", "category", "available"}}

Request(method, id, headers, body, args) ==
    [method |-> method, id |-> id, headers |-> headers, body |-> body, args |-> args]

-----------------------------------------------------------------------------
(* The service *)

NoRequest == Request("NONE", 0, NoHeaders, NoBody, NoArgs)
NoResponse == EmptyResponse(0)

\* no request is being served
Idle == request.method = "NONE"

Init ==
    /\ store = <<>>
    /\ nextId = 1
    /\ before = <<>>
    /\ request = NoRequest
    /\ response = NoResponse

Post ==
    /\ Idle
    /\ \E e \in Entities :
        LET q == Request("POST", 0, e[1], e[2], NoArgs)
            r == create_products(store, nextId, q)
        IN  /\ r.nextId <= MaxId + 1
            /\ before' = store
            /\ request' = q
            /\ store' = r.store
            /\ nextId' = r.nextId
            /\ response' = r.response

Get ==
    /\ Idle
    /\ \E id \in PathIds :
        /\ before' = store
        /\ request' = Request("GET", id, NoHeaders, NoBody, NoArgs)
        /\ response' = get_products(store, id)
        /\ UNCHANGED <<store, nextId>>

Update ==
    /\ Idle
    /\ \E id \in PathIds, e \in Entities :
        LET q == Request("PUT", id, e[1], e[2], NoArgs)
            r == update_products(store, q)
        IN  /\ before' = store
            /\ request' = q
            /\ store' = r.store
            /\ response' = r.response
            /\ UNCHANGED nextId

Delete ==
    /\ Idle
    /\ \E id \in PathIds :
        LET q == Request("DELETE", id, NoHeaders, NoBody, NoArgs)
            r == delete_products(store, q)
        IN  /\ before' = store
            /\ request' = q
            /\ store' = r.store
            /\ response' = r.response
            /\ UNCHANGED nextId

List ==
    /\ Idle
    /\ \E a \in QueryArgs :
        LET q == Request("LIST", 0, NoHeaders, NoBody, a)
        IN  /\ before' = store
            /\ request' = q
            /\ response' = list_products(store, q)
            /\ UNCHANGED <<store, nextId>>

\* the response has been sent and the request is over: the service keeps
\* nothing of it but the table
Done ==
    /\ ~Idle
    /\ before' = store
    /\ request' = NoRequest
    /\ response' = NoResponse
    /\ UNCHANGED <<store, nextId>>

Next == Post \/ Get \/ Update \/ Delete \/ List \/ Done

Spec == Init /\ [][Next]_vars

-----------------------------------------------------------------------------
(* Properties.  Each is a predicate of the state a request leaves: the      *)
(* table before it, the request, the response and the table after it.       *)

\* the records of table s, serialized, whose id satisfies keep
Selected(s, keep(_)) == {serialize(i, s[i]) : i \in {j \in DOMAIN s : keep(j)}}

\* the payload data carries every field of a valid payload (an id key or not)
IsValidPayload(data) ==
    \E b \in ValidPayloads : \A k \in DOMAIN b : k \in DOMAIN data /\ data[k] = b[k]

\* product is the wire form of the payload data, but for its id
SameFields(product, data) ==
    /\ product.name = data.name
    /\ product.description = data.description
    /\ Decimal(product.price) = Decimal(data.price)
    /\ product.available = data.available
    /\ product.category = data.category

\* C1: DELETE /products/{id} answers 204 with an empty body for every id,
\* present or absent; an absent id leaves the table as it was, a present one
\* removes exactly that record, and deleting again changes nothing more.
C1_DeleteIdempotent ==
    request.method = "DELETE" =>
        /\ response.status = HTTP_204_NO_CONTENT
        /\ response.kind = "empty"
        /\ (request.id \notin DOMAIN before => store = before)
        /\ (request.id \in DOMAIN before =>
                /\ DOMAIN store = DOMAIN before \ {request.id}
                /\ \A i \in DOMAIN store : store[i] = before[i])
        /\ delete_products(store, request).store = store
        /\ delete_products(store, request).response = response

\* a record was deleted while another one stayed
C1_Witness ==
    /\ request.method = "DELETE"
    /\ request.id \in DOMAIN before
    /\ DOMAIN store # {}
    /\ response.status = HTTP_204_NO_CONTENT

\* C2: GET /products/{id} answers 404 with the message "Product with id
\* '{id}' was not found." whenever the table holds no record of that id, be it
\* an id never created or the id of a record just deleted, and 200 with the
\* serialized record while the record exists.
C2_GetNotFound ==
    /\ request.method = "GET" =>
          IF request.id \in DOMAIN store
          THEN /\ response.status = HTTP_200_OK
               /\ response.kind = "product"
               /\ response.product.id = request.id
               /\ response.product.name = store[request.id].name
               /\ response.product.description = store[request.id].description
               /\ Decimal(response.product.price) = <<store[request.id].price>>
               /\ response.product.available = store[request.id].available
               /\ response.product.category = store[request.id].category
          ELSE /\ response.status = HTTP_404_NOT_FOUND
               /\ response.kind = "error"
               /\ response.message = <<"Product with id '", request.id, "' was not found.">>
    /\ request.method = "DELETE" =>
          LET g == get_products(store, request.id) IN
          /\ g.status = HTTP_404_NOT_FOUND
          /\ g.message = <<"Product with id '", request.id, "' was not found.">>

\* a GET of an id that was assigned once and has been deleted since
C2_Witness ==
    /\ request.method = "GET"
    /\ request.id \in 1..(nextId - 1)
    /\ request.id \notin DOMAIN store
    /\ response.status = HTTP_404_NOT_FOUND

\* C3: POST /products with a valid payload answers 201 with a Location
\* header and an id assigned by storage (whatever id the payload carries),
\* different from the id of every record already there, and a GET of that id
\* gives back the name, description, price, available and category sent.
C3_CreateThenGet ==
    (request.method = "POST" /\ IsJson(request.headers) /\ IsValidPayload(request.body)) =>
        /\ response.status = HTTP_201_CREATED
        /\ response.kind = "product"
        /\ response.location = <<"/products/", response.product.id>>
        /\ response.product.id \notin DOMAIN before
        /\ response.product.id = nextId - 1
        /\ SameFields(response.product, request.body)
        /\ LET g == get_products(store, response.product.id) IN
           /\ g.status = HTTP_200_OK
           /\ g.product.id = response.product.id
           /\ SameFields(g.product, request.body)

\* a record created, beside an existing one, from a payload that carried the
\* id of the existing one
C3_Witness ==
    /\ request.method = "POST"
    /\ response.status = HTTP_201_CREATED
    /\ "id" \in DOMAIN request.body
    /\ request.body.id \in DOMAIN before
    /\ request.body.id # response.product.id

\* C4: a PUT /products/{id} with JSON and a valid payload on an existing
\* record succeeds; every successful PUT answers 200 with the path id as the
\* id, whatever id the body carries, changes no record but the one under the
\* path id, and a GET of the path id then shows the new field values.
C4_UpdateInPlace ==
    /\ (/\ request.method = "PUT"
        /\ IsJson(request.headers)
        /\ request.id \in DOMAIN before
        /\ IsValidPayload(request.body)) => response.status = HTTP_200_OK
    /\ (request.method = "PUT" /\ response.status = HTTP_200_OK) =>
        /\ request.id \in DOMAIN before
        /\ response.kind = "product"
        /\ response.product.id = request.id
        /\ DOMAIN store = DOMAIN before
        /\ \A i \in DOMAIN store \ {request.id} : store[i] = before[i]
        /\ SameFields(response.product, request.body)
        /\ LET g == get_products(store, request.id) IN
           /\ g.status = HTTP_200_OK
           /\ g.product = response.product

\* a description updated by a body that carried the id of another record
C4_Witness ==
    /\ request.method = "PUT"
    /\ response.status = HTTP_200_OK
    /\ "id" \in DOMAIN request.body
    /\ request.body.id # request.id
    /\ request.body.id \in DOMAIN before
    /\ before[request.id].description # request.body.description
    /\ store[request.id].description = request.body.description

\* C5: a PUT /products/{id} that does not succeed leaves every record as it
\* was: without the JSON content type it answers 415, the id existing or not;
\* with JSON and an id not in the table it answers 404 and creates nothing;
\* with JSON and a payload that fails validation it fails and the stored
\* record stays as it was.
C5_FailedUpdate ==
    request.method = "PUT" =>
        /\ (response.status # HTTP_200_OK => store = before)
        /\ (~IsJson(request.headers) =>
                response.status = HTTP_415_UNSUPPORTED_MEDIA_TYPE)
        /\ ((IsJson(request.headers) /\ request.id \notin DOMAIN before) =>
                /\ response.status = HTTP_404_NOT_FOUND
                /\ store = before)
        /\ ((/\ IsJson(request.headers)
             /\ request.id \in DOMAIN before
             /\ ~IsValidPayload(request.body)) =>
                /\ response.status \in 400..499
                /\ store = before)

\* an update with no category, whose description differs from the stored one
C5_Witness ==
    /\ request.method = "PUT"
    /\ IsJson(request.headers)
    /\ request.id \in DOMAIN before
    /\ "category" \notin DOMAIN request.body
    /\ request.body.description # before[request.id].description
    /\ response.status = HTTP_400_BAD_REQUEST

\* C6: POST /products without the JSON content type answers 415, and with a
\* JSON payload that has no name it answers 400; either way no record is
\* added: the table, and the number of products GET /products lists, are as
\* before.
C6_FailedCreate ==
    request.method = "POST" =>
        /\ (~IsJson(request.headers) =>
                response.status = HTTP_415_UNSUPPORTED_MEDIA_TYPE)
        /\ ((IsJson(request.headers) /\ "name" \notin DOMAIN request.body) =>
                response.status = HTTP_400_BAD_REQUEST)
        /\ (response.status \in {HTTP_415_UNSUPPORTED_MEDIA_TYPE, HTTP_400_BAD_REQUEST} =>
                /\ store = before
                /\ Cardinality(list_products(store, [args |-> NoArgs]).items)
                       = Cardinality(list_products(before, [args |-> NoArgs]).items)
                /\ Cardinality(list_products(store, [args |-> NoArgs]).items)
                       = Cardinality(DOMAIN before))

\* a nameless payload refused while the table holds a record
C6_Witness ==
    /\ request.method = "POST"
    /\ IsJson(request.headers)
    /\ "name" \notin DOMAIN request.body
    /\ response.status = HTTP_400_BAD_REQUEST
    /\ DOMAIN before # {}

\* C7 (as claimed): GET /products honours the first parameter supplied in the
\* order name, category, available and no other, returns every record when
\* none is supplied, and always answers 200 with a sequence.
C7_Claimed ==
    request.method = "LIST" =>
        /\ response.status = HTTP_200_OK
        /\ response.kind = "list"
        /\ response.items =
              IF "name" \in DOMAIN request.args
              THEN Selected(before, LAMBDA i : before[i].name = request.args.name)
              ELSE IF "category" \in DOMAIN request.args
              THEN Selected(before,
                        LAMBDA i : before[i].category = Upper(request.args.category))
              ELSE IF "available" \in DOMAIN request.args
              THEN Selected(before,
                        LAMBDA i : before[i].available
                                      = (request.args.available \in {"true", "YES", "1"}))
              ELSE Selected(before, LAMBDA i : TRUE)

C9_Claimed ==
    (/\ request.method = "LIST"
     /\ "name" \notin DOMAIN request.args
     /\ "category" \in DOMAIN request.args
     /\ request.args.category = "bogus") =>
        /\ response.status = HTTP_400_BAD_REQUEST
        /\ response.kind = "error"

\* C10 (amended): with available the only parameter, true, yes and 1 in any
\* letter case select exactly the available records, and every other value
\* that is not empty selects exactly the unavailable ones; an empty value
\* counts as no filter and every record is returned.
C10_AvailableFilter ==
    (request.method = "LIST" /\ DOMAIN request.args = {"available"}) =>
        /\ response.status = HTTP_200_OK
        /\ response.items =
              IF request.args.available \in {"true", "YES", "1"}
              THEN Selected(before, LAMBDA i : before[i].available)
              ELSE IF request.args.available = ""
              THEN Selected(before, LAMBDA i : TRUE)
              ELSE Selected(before, LAMBDA i : ~before[i].available)

\* available=YES, in upper case, picked the available records and left others
C10_Witness ==
    /\ request.method = "LIST"
    /\ DOMAIN request.args = {"available"}
    /\ request.args.available = "YES"
    /\ response.items # {}
    /\ Cardinality(response.items) < Cardinality(DOMAIN store)

\* C10 (as claimed): every value other than true, yes and 1, the empty one
\* included, selects exactly the unavailable records.
C10_Claimed ==
    (request.method = "LIST" /\ DOMAIN request.args = {"available"}) =>
        /\ response.status = HTTP_200_OK
        /\ response.items =
              IF request.args.available \in {"true", "YES", "1"}
              THEN Selected(before, LAMBDA i : before[i].available)
              ELSE Selected(before, LAMBDA i : ~before[i].available)

====
